---- MODULE Spec2Model ----
\* Model of the epistemic engine of PokeEpistemic (src/kripke.py):
\* World.satisfies, KripkeModel seeding, public announcement and the
\* modal / statistical queries.
EXTENDS FiniteSets, Integers, Sequences, TLC

VARIABLES worlds, eliminated, last, calls, lock,
          pokemon_models, revealed_pokemon, observations, _CACHE

vars == <<worlds, eliminated, last, calls, lock,
          pokemon_models, revealed_pokemon, observations, _CACHE>>

\* the part of the state that belongs to callers sharing one model between
\* threads
threadVars == <<calls, lock>>

\* the state of a BattleTracker (src/main.py) and the module-level catalog
\* cache of src/pokemon_data.py
trackerVars == <<pokemon_models, revealed_pokemon, observations, _CACHE>>

\* ---------------------------------------------------------------- bounds
\* longest batch of catalog records handed to one seeding call
MaxSets == 2

\* longest observation history of a tracker
MaxObservations == 3

\* ---------------------------------------------------------------- inputs
\* threads that share one model
Threads == {"t1", "t2"}

\* names a model is seeded for
PokemonNames == {"Garchomp"}

\* catalog records (kripke.py __main__ demo, shortened movesets); the last
\* record lacks the "item" key
SetPool ==
  { [moves |-> <<"Earthquake", "Swords Dance">>, item |-> "Focus Sash",
     ability |-> "Rough Skin"],
    [moves |-> <<"Earthquake", "Earthquake">>, item |-> "Rocky Helmet",
     ability |-> "Sand Veil"],
    [moves |-> <<"Earthquake">>, ability |-> "Rough Skin"] }

RECURSIVE SeqsUpTo(_)
SeqsUpTo(n) ==
  IF n = 0 THEN {<<>>}
  ELSE LET shorter == SeqsUpTo(n - 1)
       IN  shorter \cup {Append(s, r) : s \in {t \in shorter : Len(t) = n - 1},
                                        r \in SetPool}

Batches == SeqsUpTo(MaxSets)

\* proposition strings handed to the model: the five prefixes satisfies()
\* recognises, the negated ability prefix, a kind without its colon and an
\* unknown kind
Moves == {"Earthquake", "Swords Dance"}

Items == {"Focus Sash", "Rocky Helmet"}

Abilities == {"Rough Skin"}

Propositions ==
  {pre \o v : pre \in {"has_move:", "not_has_move:"}, v \in Moves}
    \cup {pre \o v : pre \in {"has_item:", "not_has_item:"}, v \in Items}
    \cup {pre \o v : pre \in {"has_ability:", "not_has_ability:"}, v \in Abilities}
    \cup {"has_move", "knows_move:Earthquake"}

\* what a user types at the tracker: pokemon names, moves and items, before
\* normalisation
RawNames == {"garchomp", " DRAGAPULT ", "urshifu"}

RawMoves == {"swords dance", " Earthquake", "u-turn"}

RawItems == {"rocky helmet", "LOADED DICE ", "choice band"}

\* ---------------------------------------------------------------- strings
\* str.startswith
StartsWith(s, prefix) ==
  /\ Len(s) >= Len(prefix)
  /\ SubSeq(s, 1, Len(prefix)) = prefix

\* index of the first ":" of s at or after k
RECURSIVE FirstColon(_, _)
FirstColon(s, k) ==
  IF SubSeq(s, k, k) = ":" THEN k ELSE FirstColon(s, k + 1)

\* str.split(":", 1)[1]: everything after the first colon
AfterFirstColon(s) == SubSeq(s, FirstColon(s, 1) + 1, Len(s))

\* the cased characters the inputs use, lower and upper case in step
LowerLetters == "abcdefghijklmnopqrstuvwxyz"

UpperLetters == "ABCDEFGHIJKLMNOPQRSTUVWXYZ"

\* position of the one-character string c in letters, 0 when it is not there
IndexIn(c, letters) ==
  IF \E i \in 1..Len(letters) : SubSeq(letters, i, i) = c
    THEN CHOOSE i \in 1..Len(letters) : SubSeq(letters, i, i) = c
    ELSE 0

\* str.isupper / str.islower of one character
IsCased(c) == IndexIn(c, LowerLetters) > 0 \/ IndexIn(c, UpperLetters) > 0

\* str.upper of one character
UpperChar(c) ==
  LET i == IndexIn(c, LowerLetters)
  IN  IF i > 0 THEN SubSeq(UpperLetters, i, i) ELSE c

\* str.lower of one character
LowerChar(c) ==
  LET i == IndexIn(c, UpperLetters)
  IN  IF i > 0 THEN SubSeq(LowerLetters, i, i) ELSE c

\* str.lower
RECURSIVE Lower(_)
Lower(s) ==
  IF s = "" THEN ""
  ELSE LowerChar(SubSeq(s, 1, 1)) \o Lower(SubSeq(s, 2, Len(s)))

\* str.title from position k on: a cased character is upper case when the
\* character before it is not cased, lower case otherwise
RECURSIVE TitleFrom(_, _, _)
TitleFrom(s, k, previousCased) ==
  IF k > Len(s) THEN ""
  ELSE LET c == SubSeq(s, k, k)
       IN  (IF ~IsCased(c) THEN c
            ELSE IF previousCased THEN LowerChar(c) ELSE UpperChar(c))
             \o TitleFrom(s, k + 1, IsCased(c))

\* str.title
Title(s) == TitleFrom(s, 1, FALSE)

\* str.strip: leading and trailing blanks removed
RECURSIVE Strip(_)
Strip(s) ==
  IF s = "" THEN ""
  ELSE IF SubSeq(s, 1, 1) = " " THEN Strip(SubSeq(s, 2, Len(s)))
  ELSE IF SubSeq(s, Len(s), Len(s)) = " " THEN Strip(SubSeq(s, 1, Len(s) - 1))
  ELSE s

\* the "in" operator of two strings
Contains(s, part) ==
  \E k \in 1..(Len(s) - Len(part) + 1) : SubSeq(s, k, k + Len(part) - 1) = part

\* ---------------------------------------------------------------- normalisation
\* BattleTracker._normalize_name
_normalize_name(raw) ==
  LET name == Title(Strip(raw))
  IN  IF Lower(name) = "flutter mane" \/ Lower(name) = "fluttermane"
        THEN "Flutter Mane"
      ELSE IF Lower(name) = "great tusk" \/ Lower(name) = "greattusk"
        THEN "Great Tusk"
      ELSE IF Lower(name) = "iron valiant" \/ Lower(name) = "ironvaliant"
        THEN "Iron Valiant"
      ELSE IF Contains(Lower(name), "urshifu") THEN "Urshifu-Rapid"
      ELSE name

\* BattleTracker._normalize_move
_normalize_move(move) == Title(Strip(move))

\* BattleTracker._normalize_item
_normalize_item(item) == Title(Strip(item))

\* the normalised form of every input, computed once
NameOf == [raw \in RawNames |-> _normalize_name(raw)]

MoveOf == [raw \in RawMoves |-> _normalize_move(raw)]

ItemOf == [raw \in RawItems |-> _normalize_item(raw)]

\* the propositions a tracker builds from its inputs
TrackerPropositions ==
  {"has_move:" \o MoveOf[raw] : raw \in RawMoves}
    \cup {pre \o ItemOf[raw] : pre \in {"has_item:", "not_has_item:"},
                               raw \in RawItems}

\* ---------------------------------------------------------------- outcomes
\* a call either returns a value or raises
Returned(v) == [raised |-> "", value |-> v]

Raised(e) == [raised |-> e, value |-> e]

\* ---------------------------------------------------------------- World
\* World(id, pokemon, moveset, item, ability)
World(id, pokemon, moveset, item, ability) ==
  [id |-> id, pokemon |-> pokemon, moveset |-> moveset, item |-> item,
   ability |-> ability]

\* the string work of World.satisfies, which does not depend on the world:
\* the first prefix that matches, in source order, and the text after the
\* first colon
Dispatch(proposition) ==
  IF StartsWith(proposition, "has_move:")
    THEN [branch |-> "has_move:", arg |-> AfterFirstColon(proposition)]
  ELSE IF StartsWith(proposition, "has_item:")
    THEN [branch |-> "has_item:", arg |-> AfterFirstColon(proposition)]
  ELSE IF StartsWith(proposition, "has_ability:")
    THEN [branch |-> "has_ability:", arg |-> AfterFirstColon(proposition)]
  ELSE IF StartsWith(proposition, "not_has_move:")
    THEN [branch |-> "not_has_move:", arg |-> AfterFirstColon(proposition)]
  ELSE IF StartsWith(proposition, "not_has_item:")
    THEN [branch |-> "not_has_item:", arg |-> AfterFirstColon(proposition)]
  ELSE [branch |-> "else", arg |-> ""]

\* Dispatch, evaluated once for each proposition string of the model
DispatchOf ==
  [proposition \in Propositions \cup TrackerPropositions |-> Dispatch(proposition)]

\* World.satisfies
satisfies(world, proposition) ==
  LET d == IF proposition \in DOMAIN DispatchOf THEN DispatchOf[proposition]
                                            ELSE Dispatch(proposition)
  IN  CASE d.branch = "has_move:" -> Returned(d.arg \in world.moveset)
        [] d.branch = "has_item:" -> Returned(world.item = d.arg)
        [] d.branch = "has_ability:" -> Returned(world.ability = d.arg)
        [] d.branch = "not_has_move:" -> Returned(d.arg \notin world.moveset)
        [] d.branch = "not_has_item:" -> Returned(world.item # d.arg)
        [] OTHER -> Raised("ValueError")

\* mutant: worlds kept like a dict keyed by id, a later world replaces the
\* earlier one of the same id
SetAddReplaces(S, w) ==
  {x \in S : x.id # w.id} \cup {w}

\* Python set operations on World objects: __hash__ and __eq__ look at the
\* id only, so an element whose id is already present is never replaced.
SetAdd(S, w) ==
  IF \E x \in S : x.id = w.id THEN S ELSE S \cup {w}

\* S -= T
SetDifferenceUpdate(S, T) ==
  {x \in S : \A y \in T : y.id # x.id}

\* mutant: &= written for |=
SetUnionUpdateIntersects(S, T) ==
  {x \in S : \E y \in T : y.id = x.id}

\* S |= T
SetUnionUpdate(S, T) ==
  S \cup {y \in T : \A x \in S : x.id # y.id}

\* set(list)
ToSet(list) == {list[k] : k \in 1..Len(list)}

\* f"{pokemon}_{i}"
WorldId(pokemon, i) == pokemon \o "_" \o ToString(i)

\* ---------------------------------------------------------------- KripkeModel
\* mutant: enumerate(sets, 1), the ids start at 1
RECURSIVE SeedFromOneBased(_, _, _, _)
SeedFromOneBased(W, pokemon, sets, i) ==
  IF i >= Len(sets) THEN [worlds |-> W, raised |-> ""]
  ELSE LET poke_set == sets[i + 1]
       IN  IF {"moves", "item", "ability"} \subseteq DOMAIN poke_set
             THEN SeedFromOneBased(SetAdd(W, World(WorldId(pokemon, i + 1), pokemon,
                                                   ToSet(poke_set.moves),
                                                   poke_set.item, poke_set.ability)),
                                   pokemon, sets, i + 1)
             ELSE [worlds |-> W, raised |-> "KeyError"]

\* the loop of add_worlds_from_pokemon_data from index i on: a record that
\* lacks a key raises KeyError while its World is being built, after the
\* worlds of the records before it were added
RECURSIVE SeedFrom(_, _, _, _)
SeedFrom(W, pokemon, sets, i) ==
  IF i >= Len(sets) THEN [worlds |-> W, raised |-> ""]
  ELSE LET poke_set == sets[i + 1]
       IN  IF {"moves", "item", "ability"} \subseteq DOMAIN poke_set
             THEN SeedFrom(SetAdd(W, World(WorldId(pokemon, i), pokemon,
                                           ToSet(poke_set.moves), poke_set.item,
                                           poke_set.ability)),
                           pokemon, sets, i + 1)
             ELSE [worlds |-> W, raised |-> "KeyError"]

\* mutant: the loop tests satisfies() without the "not"
ToEliminateMissingNot(W, proposition) ==
  {world \in W : satisfies(world, proposition).value}

\* mutant: the loop stops after the first world it collects
ToEliminateFirstOnly(W, proposition) ==
  LET failing == {world \in W : ~satisfies(world, proposition).value}
  IN  IF failing = {} THEN {} ELSE {CHOOSE world \in failing : TRUE}

\* to_eliminate as built by the loop of public_announcement
ToEliminate(W, proposition) ==
  {world \in W : ~satisfies(world, proposition).value}

\* satisfies raises on the first world visited: whether it raises depends on
\* the proposition string only, never on the world
RaisesOn(W, proposition) ==
  \E world \in W : satisfies(world, proposition).raised # ""

\* mutant: eliminated is assigned to_eliminate instead of being extended by it
PublicAnnouncementAssignsEliminated(W, E, proposition) ==
  IF \E world \in W : satisfies(world, proposition).raised # ""
    THEN [worlds |-> W, eliminated |-> E, out |-> Raised("ValueError")]
    ELSE LET to_eliminate == {world \in W : ~satisfies(world, proposition).value}
         IN  [worlds |-> SetDifferenceUpdate(W, to_eliminate),
              eliminated |-> to_eliminate,
              out |-> Returned(Cardinality(to_eliminate))]

\* mutant: the worlds collected are recorded as eliminated but never removed
\* from worlds
PublicAnnouncementKeepsWorlds(W, E, proposition) ==
  IF \E world \in W : satisfies(world, proposition).raised # ""
    THEN [worlds |-> W, eliminated |-> E, out |-> Raised("ValueError")]
    ELSE LET to_eliminate == {world \in W : ~satisfies(world, proposition).value}
         IN  [worlds |-> W,
              eliminated |-> SetUnionUpdate(E, to_eliminate),
              out |-> Returned(Cardinality(to_eliminate))]

\* mutant: an announcement to a model without worlds is refused
PublicAnnouncementRejectsEmpty(W, E, proposition) ==
  IF W = {} \/ \E world \in W : satisfies(world, proposition).raised # ""
    THEN [worlds |-> W, eliminated |-> E, out |-> Raised("ValueError")]
    ELSE LET to_eliminate == {world \in W : ~satisfies(world, proposition).value}
         IN  [worlds |-> SetDifferenceUpdate(W, to_eliminate),
              eliminated |-> SetUnionUpdate(E, to_eliminate),
              out |-> Returned(Cardinality(to_eliminate))]

\* mutant: a world whose evaluation fails is collected like a world that does
\* not satisfy the proposition, and the error is raised after the transfer
PublicAnnouncementRaisesAfterTransfer(W, E, proposition) ==
  IF RaisesOn(W, proposition)
    THEN [worlds |-> {}, eliminated |-> SetUnionUpdate(E, W),
          out |-> Raised("ValueError")]
    ELSE LET to_eliminate == ToEliminate(W, proposition)
         IN  [worlds |-> SetDifferenceUpdate(W, to_eliminate),
              eliminated |-> SetUnionUpdate(E, to_eliminate),
              out |-> Returned(Cardinality(to_eliminate))]

\* public_announcement as a function of the model state: new worlds, new
\* eliminated and the outcome of the call
PublicAnnouncement(W, E, proposition) ==
  IF RaisesOn(W, proposition)
    THEN [worlds |-> W, eliminated |-> E, out |-> Raised("ValueError")]
    ELSE LET to_eliminate == ToEliminate(W, proposition)
         IN  [worlds |-> SetDifferenceUpdate(W, to_eliminate),
              eliminated |-> SetUnionUpdate(E, to_eliminate),
              out |-> Returned(Cardinality(to_eliminate))]

\* knows
Knows(W, proposition) ==
  IF W = {} THEN Returned(TRUE)
  ELSE IF RaisesOn(W, proposition) THEN Raised("ValueError")
  ELSE Returned(\A world \in W : satisfies(world, proposition).value)

\* mutant: possibly written with all() like knows
PossiblyAll(W, proposition) ==
  IF \E world \in W : satisfies(world, proposition).raised # ""
    THEN Raised("ValueError")
    ELSE Returned(\A world \in W : satisfies(world, proposition).value)

\* possibly
Possibly(W, proposition) ==
  IF RaisesOn(W, proposition) THEN Raised("ValueError")
  ELSE Returned(\E world \in W : satisfies(world, proposition).value)

\* mutant: no guard for an empty worlds set, the division raises
ProbabilityNoEmptyCheck(W, proposition) ==
  IF \E world \in W : satisfies(world, proposition).raised # ""
    THEN Raised("ValueError")
  ELSE IF W = {} THEN Raised("ZeroDivisionError")
  ELSE Returned([num |-> Cardinality({w \in W : satisfies(w, proposition).value}),
                 den |-> Cardinality(W)])

\* probability: the float count / len(worlds) kept as the exact fraction
Probability(W, proposition) ==
  IF W = {} THEN Returned([num |-> 0, den |-> 1])
  ELSE IF RaisesOn(W, proposition) THEN Raised("ValueError")
  ELSE Returned([num |-> Cardinality({w \in W : satisfies(w, proposition).value}),
                 den |-> Cardinality(W)])

\* intersection of the movesets of a non-empty set of worlds
RECURSIVE IntersectMovesets(_, _)
IntersectMovesets(known, rest) ==
  IF rest = {} THEN known
  ELSE LET world == CHOOSE w \in rest : TRUE
       IN  IntersectMovesets(known \cap world.moveset, rest \ {world})

\* mutant: known is the first world's moveset itself, not a copy of it, so
\* "known &= world.moveset" shrinks that world's moveset
GetKnownMovesAliased(W) ==
  IF W = {} THEN [worlds |-> W, out |-> Returned({})]
  ELSE LET first == CHOOSE w \in W : TRUE
           known == IntersectMovesets(first.moveset, W \ {first})
       IN  [worlds |-> (W \ {first}) \cup {[first EXCEPT !.moveset = known]},
            out |-> Returned(known)]

\* mutant: the movesets are accumulated with |= as in get_possible_moves
GetKnownMovesUnion(W) ==
  [worlds |-> W, out |-> Returned(UNION {w.moveset : w \in W})]

\* get_known_moves: known starts as a copy of the moveset of the first world
\* visited and is intersected with every other one; the worlds are left as
\* they are
GetKnownMoves(W) ==
  IF W = {} THEN [worlds |-> W, out |-> Returned({})]
  ELSE LET first == CHOOSE w \in W : TRUE
       IN  [worlds |-> W,
            out |-> Returned(IntersectMovesets(first.moveset, W \ {first}))]

\* mutant: possible is accumulated with &= and so never leaves the empty set
GetPossibleMovesIntersect(W) ==
  Returned({})

\* get_possible_moves
GetPossibleMoves(W) ==
  Returned(UNION {world.moveset : world \in W})

\* get_possible_items
GetPossibleItems(W) ==
  Returned({world.item : world \in W})

\* mutant: an item is reported as soon as any item is possible
GetKnownItemAny(W) ==
  LET items == {world.item : world \in W}
  IN  IF items # {} THEN Returned(CHOOSE item \in items : TRUE)
      ELSE Returned("None")

\* get_known_item
GetKnownItem(W) ==
  LET items == GetPossibleItems(W).value
  IN  IF Cardinality(items) = 1 THEN Returned(CHOOSE item \in items : TRUE)
      ELSE Returned("None")

\* ---------------------------------------------------------------- state machine
\* the call that ended last: operation, argument, outcome, and whether it
\* repeats the call straight before it (same operation, same argument, that
\* call having returned)
Call(op, arg, out) ==
  [op |-> op, arg |-> arg, raised |-> out.raised, value |-> out.value,
   again |-> last.op = op /\ last.arg = arg /\ last.raised = ""
             /\ op = "public_announcement"]

\* a thread that is not inside a call
Idle == [pc |-> "idle", proposition |-> "", to_eliminate |-> {}]

\* no BattleTracker beside the model: nothing revealed, nothing observed,
\* nothing cached
NoTracker ==
  /\ pokemon_models = << >>
  /\ revealed_pokemon = << >>
  /\ observations = << >>
  /\ _CACHE = << >>

\* KripkeModel.__init__
Init ==
  /\ worlds = {}
  /\ eliminated = {}
  /\ last = [op |-> "__init__", arg |-> "", raised |-> "", value |-> "None",
             again |-> FALSE]
  /\ calls = [t \in Threads |-> Idle]
  /\ lock = "none"
  /\ NoTracker

\* worlds a caller may hand to add_world
WellFormedSets == {r \in SetPool : {"moves", "item", "ability"} \subseteq DOMAIN r}

\* batches in which every record has its three keys
GoodBatches ==
  {sets \in Batches : \A k \in 1..Len(sets) : sets[k] \in WellFormedSets}

AddableWorlds ==
  {World(WorldId(n, i), n, ToSet(r.moves), r.item, r.ability) :
     n \in PokemonNames, i \in 0..(MaxSets - 1), r \in WellFormedSets}

add_world(world) ==
  /\ worlds' = SetAdd(worlds, world)
  /\ last' = Call("add_world", world.id, Returned("None"))
  /\ UNCHANGED <<eliminated, threadVars, trackerVars>>

add_worlds_from_pokemon_data(pokemon, sets) ==
  LET r == SeedFrom(worlds, pokemon, sets, 0)
  IN  /\ worlds' = r.worlds
      /\ last' = Call("add_worlds_from_pokemon_data", pokemon,
                      IF r.raised = "" THEN Returned("None") ELSE Raised(r.raised))
      /\ UNCHANGED <<eliminated, threadVars, trackerVars>>

public_announcement(proposition) ==
  LET r == PublicAnnouncement(worlds, eliminated, proposition)
  IN  /\ worlds' = r.worlds
      /\ eliminated' = r.eliminated
      /\ last' = Call("public_announcement", proposition, r.out)
      /\ UNCHANGED <<threadVars, trackerVars>>

knows(proposition) ==
  /\ last' = Call("knows", proposition, Knows(worlds, proposition))
  /\ UNCHANGED <<worlds, eliminated, threadVars, trackerVars>>

possibly(proposition) ==
  /\ last' = Call("possibly", proposition, Possibly(worlds, proposition))
  /\ UNCHANGED <<worlds, eliminated, threadVars, trackerVars>>

probability(proposition) ==
  /\ last' = Call("probability", proposition, Probability(worlds, proposition))
  /\ UNCHANGED <<worlds, eliminated, threadVars, trackerVars>>

get_known_moves ==
  LET r == GetKnownMoves(worlds)
  IN  /\ worlds' = r.worlds
      /\ last' = Call("get_known_moves", "", r.out)
      /\ UNCHANGED <<eliminated, threadVars, trackerVars>>

get_possible_moves ==
  /\ last' = Call("get_possible_moves", "", GetPossibleMoves(worlds))
  /\ UNCHANGED <<worlds, eliminated, threadVars, trackerVars>>

get_possible_items ==
  /\ last' = Call("get_possible_items", "", GetPossibleItems(worlds))
  /\ UNCHANGED <<worlds, eliminated, threadVars, trackerVars>>

get_known_item ==
  /\ last' = Call("get_known_item", "", GetKnownItem(worlds))
  /\ UNCHANGED <<worlds, eliminated, threadVars, trackerVars>>

Next ==
  \/ \E world \in AddableWorlds : add_world(world)
  \/ \E pokemon \in PokemonNames, sets \in Batches :
       add_worlds_from_pokemon_data(pokemon, sets)
  \/ \E proposition \in Propositions : public_announcement(proposition)
  \/ \E proposition \in Propositions : knows(proposition)
  \/ \E proposition \in Propositions : possibly(proposition)
  \/ \E proposition \in Propositions : probability(proposition)
  \/ get_known_moves
  \/ get_possible_moves
  \/ get_possible_items
  \/ get_known_item

Spec == Init /\ [][Next]_vars

\* ---------------------------------------------------------------- threads
\* public_announcement called by several threads on one model, one step per
\* statement of its body (the for loop counts as one statement). A caller
\* either shares the model bare (lock = "none") or wraps each whole call in
\* one lock of the model (lock = "free" or the thread holding it).
ThreadPropositions ==
  {"has_move:Swords Dance", "not_has_item:Focus Sash", "knows_move:Earthquake"}

\* the lock of the callers: who may enter, and its value after entering and
\* after leaving a call
MayEnter == lock \in {"none", "free"}

LockEntered(t) == IF lock = "none" THEN "none" ELSE t

LockLeft == IF lock = "none" THEN "none" ELSE "free"

\* a model seeded once, before the threads start
ThreadInit ==
  /\ worlds \in {SeedFrom({}, pokemon, sets, 0).worlds :
                    pokemon \in PokemonNames, sets \in GoodBatches \ {<<>>}}
  /\ eliminated = {}
  /\ last = [op |-> "__init__", arg |-> "", raised |-> "", value |-> "None",
             again |-> FALSE]
  /\ calls = [t \in Threads |-> Idle]
  /\ lock \in {"none", "free"}
  /\ NoTracker

\* to_eliminate = set()
announce_begin(t, proposition) ==
  /\ calls[t].pc = "idle"
  /\ MayEnter
  /\ lock' = LockEntered(t)
  /\ calls' = [calls EXCEPT ![t] = [pc |-> "loop", proposition |-> proposition,
                                     to_eliminate |-> {}]]
  /\ UNCHANGED <<worlds, eliminated, last, trackerVars>>

\* for world in self.worlds: ... ; a ValueError of satisfies ends the call
announce_loop(t) ==
  /\ calls[t].pc = "loop"
  /\ IF RaisesOn(worlds, calls[t].proposition)
       THEN /\ calls' = [calls EXCEPT ![t] = Idle]
            /\ lock' = LockLeft
            /\ last' = Call("public_announcement", calls[t].proposition,
                            Raised("ValueError"))
       ELSE /\ calls' = [calls EXCEPT ![t].pc = "subtract",
                                      ![t].to_eliminate =
                                        ToEliminate(worlds, calls[t].proposition)]
            /\ UNCHANGED <<lock, last>>
  /\ UNCHANGED <<worlds, eliminated, trackerVars>>

\* self.worlds -= to_eliminate
announce_subtract(t) ==
  /\ calls[t].pc = "subtract"
  /\ worlds' = SetDifferenceUpdate(worlds, calls[t].to_eliminate)
  /\ calls' = [calls EXCEPT ![t].pc = "union"]
  /\ UNCHANGED <<eliminated, last, lock, trackerVars>>

\* self.eliminated |= to_eliminate
announce_union(t) ==
  /\ calls[t].pc = "union"
  /\ eliminated' = SetUnionUpdate(eliminated, calls[t].to_eliminate)
  /\ calls' = [calls EXCEPT ![t].pc = "return"]
  /\ UNCHANGED <<worlds, last, lock, trackerVars>>

\* return len(to_eliminate)
announce_return(t) ==
  /\ calls[t].pc = "return"
  /\ last' = Call("public_announcement", calls[t].proposition,
                  Returned(Cardinality(calls[t].to_eliminate)))
  /\ calls' = [calls EXCEPT ![t] = Idle]
  /\ lock' = LockLeft
  /\ UNCHANGED <<worlds, eliminated, trackerVars>>

ThreadNext ==
  \/ \E t \in Threads, proposition \in ThreadPropositions :
       announce_begin(t, proposition)
  \/ \E t \in Threads : announce_loop(t)
  \/ \E t \in Threads : announce_subtract(t)
  \/ \E t \in Threads : announce_union(t)
  \/ \E t \in Threads : announce_return(t)

ThreadSpec == ThreadInit /\ [][ThreadNext]_vars

\* ---------------------------------------------------------------- catalog
\* src/pokemon_data.py. A catalog maps a pokemon name to its sets in the
\* order of the dictionary, each set a name and a record whose values are a
\* string or a list of slash options.
Str(v) == [list |-> FALSE, v |-> v]

List(vs) == [list |-> TRUE, v |-> vs]

\* a list of plain strings
Plain(vs) == [k \in 1..Len(vs) |-> Str(vs[k])]

\* _get_fallback_data
_get_fallback_data ==
  [Garchomp |->
     << [name |-> "TankChomp",
         data |-> [moves |-> Plain(<<"Earthquake", "Dragon Tail", "Stealth Rock",
                                     "Spikes">>),
                   ability |-> Str("Rough Skin"), item |-> Str("Rocky Helmet")]],
        [name |-> "Swords Dance",
         data |-> [moves |-> Plain(<<"Swords Dance", "Scale Shot", "Earthquake",
                                     "Fire Fang">>),
                   ability |-> Str("Rough Skin"), item |-> Str("Loaded Dice")]] >>,
   Dragapult |->
     << [name |-> "Choice Specs",
         data |-> [moves |-> Plain(<<"Draco Meteor", "Shadow Ball", "Flamethrower",
                                     "U-turn">>),
                   ability |-> Str("Infiltrator"), item |-> Str("Choice Specs")]],
        [name |-> "Choice Band",
         data |-> [moves |-> Plain(<<"Dragon Darts", "Tera Blast", "U-turn",
                                     "Sucker Punch">>),
                   ability |-> Str("Clear Body"), item |-> Str("Choice Band")]] >>]

\* what the Smogon API answers when it can be reached: Garchomp with slash
\* options and a set without ability, and no Dragapult
SmogonData ==
  [Garchomp |->
     << [name |-> "Swords Dance",
         data |-> [moves |-> <<Str("Swords Dance"),
                               List(<<"Scale Shot", "Outrage">>),
                               Str("Earthquake")>>,
                   item |-> List(<<"Loaded Dice", "Life Orb">>),
                   ability |-> Str("Rough Skin")]],
        [name |-> "Choice Scarf",
         data |-> [moves |-> Plain(<<"Earthquake", "Outrage">>),
                   item |-> Str("Choice Scarf")]] >>]

\* mutant: the fallback data is stored in the cache like fetched data
fetch_smogon_dataStoresFallback(cache, reachable) ==
  IF "data" \in DOMAIN cache
    THEN [data |-> cache["data"], cache |-> cache, contacted |-> FALSE]
  ELSE IF reachable
    THEN [data |-> SmogonData, cache |-> [data |-> SmogonData],
          contacted |-> TRUE]
  ELSE [data |-> _get_fallback_data, cache |-> [data |-> _get_fallback_data],
        contacted |-> TRUE]

\* fetch_smogon_data as a function of the cache and of whether the API can be
\* reached: the data returned, the cache afterwards and whether the API was
\* contacted
fetch_smogon_data(cache, reachable) ==
  IF "data" \in DOMAIN cache
    THEN [data |-> cache["data"], cache |-> cache, contacted |-> FALSE]
  ELSE IF reachable
    THEN [data |-> SmogonData, cache |-> [data |-> SmogonData],
          contacted |-> TRUE]
  ELSE [data |-> _get_fallback_data, cache |-> cache, contacted |-> TRUE]

\* _get_first
_get_first(value) == IF value.list THEN value.v[1] ELSE value.v

\* _flatten_options
_flatten_options(moves) == [k \in 1..Len(moves) |-> _get_first(moves[k])]

\* dict.get(key, default)
Get(dict, key, default) == IF key \in DOMAIN dict THEN dict[key] ELSE default

\* the body of get_sets once the catalog is fetched
SetsOf(data, pokemon) ==
  LET pokemon_data == Get(data, pokemon, << >>)
  IN  [k \in 1..Len(pokemon_data) |->
         LET set_data == pokemon_data[k].data
         IN  [name |-> pokemon_data[k].name,
              moves |-> _flatten_options(Get(set_data, "moves", << >>)),
              item |-> _get_first(Get(set_data, "item", Str("Unknown"))),
              ability |-> _get_first(Get(set_data, "ability", Str("Unknown")))]]

\* get_sets: the sets and the fetch they were read with
get_sets(cache, reachable, pokemon) ==
  LET fetched == fetch_smogon_data(cache, reachable)
  IN  [sets |-> SetsOf(fetched.data, pokemon), fetched |-> fetched]

\* ---------------------------------------------------------------- BattleTracker
\* src/main.py: one KripkeModel for each revealed pokemon, the order of the
\* reveals and the history of what was observed.

\* dict[key] = value
Put(dict, key, value) ==
  [k \in DOMAIN dict \cup {key} |-> IF k = key THEN value ELSE dict[k]]

\* BattleTracker.__init__ in a process whose catalog cache is empty; every
\* tracker call is recorded with the tuple of its arguments and a record of
\* what it returned, printed and fetched
TrackerInit ==
  /\ worlds = {}
  /\ eliminated = {}
  /\ last = [op |-> "__init__", arg |-> << >>, raised |-> "",
             value |-> [fetches |-> << >>], again |-> FALSE]
  /\ calls = [t \in Threads |-> Idle]
  /\ lock = "none"
  /\ NoTracker

\* a handler that returns False without touching the tracker
Rejects(op, arg) ==
  /\ last' = Call(op, arg, Returned([returned |-> FALSE]))
  /\ UNCHANGED <<worlds, eliminated, threadVars, trackerVars>>

\* mutant: a revealed pokemon is not recognised as revealed
AlreadyRevealedNever(pokemon) == FALSE

\* if pokemon in self.pokemon_models
AlreadyRevealed(pokemon) == pokemon \in DOMAIN pokemon_models

\* reveal_pokemon; reachable1 and reachable2 tell whether the API answers the
\* first and the second fetch of the call
reveal_pokemon(raw, reachable1, reachable2) ==
  LET pokemon == NameOf[raw]
      checked == fetch_smogon_data(_CACHE, reachable1)
  IN  IF pokemon \notin DOMAIN checked.data
        THEN LET names == fetch_smogon_data(checked.cache, reachable2)
             IN  /\ _CACHE' = names.cache
                 /\ last' = Call("reveal_pokemon", <<raw>>,
                                 Returned([returned |-> FALSE,
                                           fetches |-> <<checked, names>>]))
                 /\ UNCHANGED <<worlds, eliminated, threadVars, pokemon_models,
                                revealed_pokemon, observations>>
      ELSE IF AlreadyRevealed(pokemon)
        THEN /\ _CACHE' = checked.cache
             /\ last' = Call("reveal_pokemon", <<raw>>,
                             Returned([returned |-> FALSE,
                                       fetches |-> <<checked>>]))
             /\ UNCHANGED <<worlds, eliminated, threadVars, pokemon_models,
                            revealed_pokemon, observations>>
      ELSE LET got == get_sets(checked.cache, reachable2, pokemon)
               model == SeedFrom({}, pokemon, got.sets, 0)
           IN  /\ Len(observations) < MaxObservations
               /\ pokemon_models' =
                    Put(pokemon_models, pokemon,
                        [worlds |-> model.worlds, eliminated |-> {}])
               /\ revealed_pokemon' = Append(revealed_pokemon, pokemon)
               /\ observations' =
                    Append(observations, "Opponent sent out " \o pokemon)
               /\ _CACHE' = got.fetched.cache
               /\ last' = Call("reveal_pokemon", <<raw>>,
                               Returned([returned |-> TRUE,
                                         fetches |-> <<checked, got.fetched>>]))
               /\ UNCHANGED <<worlds, eliminated, threadVars>>

\* mutant: the announcement is made to the model of every revealed pokemon
ObserveEveryModel(op, arg, pokemon, proposition, guarded, text) ==
  IF pokemon \notin DOMAIN pokemon_models THEN Rejects(op, arg)
  ELSE IF guarded /\ ~Possibly(pokemon_models[pokemon].worlds, proposition).value
    THEN Rejects(op, arg)
  ELSE /\ Len(observations) < MaxObservations
       /\ pokemon_models' =
            [name \in DOMAIN pokemon_models |->
               LET announced == PublicAnnouncement(pokemon_models[name].worlds,
                                                   pokemon_models[name].eliminated,
                                                   proposition)
               IN  [worlds |-> announced.worlds,
                    eliminated |-> announced.eliminated]]
       /\ observations' = Append(observations, text)
       /\ last' = Call(op, arg, Returned([returned |-> TRUE]))
       /\ UNCHANGED <<worlds, eliminated, threadVars, revealed_pokemon, _CACHE>>

\* the common body of observe_move, observe_item and observe_no_item: the
\* pokemon must be revealed; a guarded observation is refused when no
\* surviving world satisfies the proposition; otherwise the proposition is
\* announced to the model of the pokemon and text is appended to the history
Observe(op, arg, pokemon, proposition, guarded, text) ==
  IF pokemon \notin DOMAIN pokemon_models THEN Rejects(op, arg)
  ELSE IF guarded /\ ~Possibly(pokemon_models[pokemon].worlds, proposition).value
    THEN Rejects(op, arg)
  ELSE LET model == pokemon_models[pokemon]
           announced == PublicAnnouncement(model.worlds, model.eliminated,
                                           proposition)
       IN  /\ Len(observations) < MaxObservations
           /\ pokemon_models' =
                [pokemon_models EXCEPT ![pokemon] =
                   [worlds |-> announced.worlds,
                    eliminated |-> announced.eliminated]]
           /\ observations' = Append(observations, text)
           /\ last' = Call(op, arg, Returned([returned |-> TRUE]))
           /\ UNCHANGED <<worlds, eliminated, threadVars, revealed_pokemon,
                          _CACHE>>

\* mutant: observe_move without the possibly() test
observe_moveUnguarded(rawPokemon, rawMove) ==
  LET pokemon == NameOf[rawPokemon]
      move == MoveOf[rawMove]
  IN  Observe("observe_move", <<rawPokemon, rawMove>>, pokemon,
              "has_move:" \o move, FALSE, pokemon \o " used " \o move)

\* observe_move
observe_move(rawPokemon, rawMove) ==
  LET pokemon == NameOf[rawPokemon]
      move == MoveOf[rawMove]
  IN  Observe("observe_move", <<rawPokemon, rawMove>>, pokemon,
              "has_move:" \o move, TRUE, pokemon \o " used " \o move)

\* observe_item
observe_item(rawPokemon, rawItem) ==
  LET pokemon == NameOf[rawPokemon]
      item == ItemOf[rawItem]
  IN  Observe("observe_item", <<rawPokemon, rawItem>>, pokemon,
              "has_item:" \o item, TRUE,
              pokemon \o "'s " \o item \o " was revealed")

\* observe_no_item: the announcement is made without a possibly() test
observe_no_item(rawPokemon, rawItem) ==
  LET pokemon == NameOf[rawPokemon]
      item == ItemOf[rawItem]
  IN  Observe("observe_no_item", <<rawPokemon, rawItem>>, pokemon,
              "not_has_item:" \o item, FALSE,
              pokemon \o " does not have " \o item)

\* the lines query_move and query_item print
KnowMessage == "YES - We KNOW they have it (100%)"

PossibleMessage == "YES - It's possible"

KnowNotMessage == "YES - We KNOW they DON'T have it (0%)"

NotRevealedMessage == "not revealed yet."

\* the common body of query_move and query_item: what is printed about the
\* proposition, with the three answers of the model
Query(op, arg, pokemon, proposition) ==
  /\ last' =
       Call(op, arg,
            IF pokemon \notin DOMAIN pokemon_models
              THEN Returned([message |-> NotRevealedMessage])
            ELSE LET model == pokemon_models[pokemon]
                     knows_ == Knows(model.worlds, proposition).value
                     possibly_ == Possibly(model.worlds, proposition).value
                     prob == Probability(model.worlds, proposition).value
                 IN  Returned([message |-> IF knows_ THEN KnowMessage
                                           ELSE IF possibly_ THEN PossibleMessage
                                           ELSE KnowNotMessage,
                               pokemon |-> pokemon,
                               proposition |-> proposition,
                               prob |-> prob]))
  /\ UNCHANGED <<worlds, eliminated, threadVars, trackerVars>>

\* query_move
query_move(rawPokemon, rawMove) ==
  Query("query_move", <<rawPokemon, rawMove>>, NameOf[rawPokemon],
        "has_move:" \o MoveOf[rawMove])

\* query_item
query_item(rawPokemon, rawItem) ==
  Query("query_item", <<rawPokemon, rawItem>>, NameOf[rawPokemon],
        "has_item:" \o ItemOf[rawItem])

\* get_pokemon_names: one fetch of the catalog
get_pokemon_names(reachable) ==
  LET fetched == fetch_smogon_data(_CACHE, reachable)
  IN  /\ _CACHE' = fetched.cache
      /\ last' = Call("get_pokemon_names", << >>,
                      Returned([names |-> DOMAIN fetched.data,
                                fetches |-> <<fetched>>]))
      /\ UNCHANGED <<worlds, eliminated, threadVars, pokemon_models,
                     revealed_pokemon, observations>>

TrackerNext ==
  \/ \E raw \in RawNames, reachable1, reachable2 \in BOOLEAN :
       reveal_pokemon(raw, reachable1, reachable2)
  \/ \E rawPokemon \in RawNames, rawMove \in RawMoves :
       observe_move(rawPokemon, rawMove)
  \/ \E rawPokemon \in RawNames, rawItem \in RawItems :
       observe_item(rawPokemon, rawItem)
  \/ \E rawPokemon \in RawNames, rawItem \in RawItems :
       observe_no_item(rawPokemon, rawItem)
  \/ \E rawPokemon \in RawNames, rawMove \in RawMoves :
       query_move(rawPokemon, rawMove)
  \/ \E rawPokemon \in RawNames, rawItem \in RawItems :
       query_item(rawPokemon, rawItem)
  \/ \E reachable \in BOOLEAN : get_pokemon_names(reachable)

TrackerSpec == TrackerInit /\ [][TrackerNext]_vars

\* ---------------------------------------------------------------- properties
\* ids of the worlds of a set (World.__eq__ compares ids)
Ids(S) == {w.id : w \in S}

\* propositions whose prefix satisfies() recognises
RecognisedPrefixes ==
  {"has_move:", "has_item:", "has_ability:", "not_has_move:", "not_has_item:"}

Recognised(proposition) ==
  \E prefix \in RecognisedPrefixes : StartsWith(proposition, prefix)

WellFormed == {p \in Propositions : Recognised(p)}

\* the proposition of opposite polarity for the same kind and value
Negate(proposition) ==
  IF StartsWith(proposition, "not_")
    THEN SubSeq(proposition, 5, Len(proposition))
    ELSE "not_" \o proposition

\* the step is a call of public_announcement(p)
Announces(p) ==
  /\ last'.op = "public_announcement"
  /\ last'.arg = p

\* C1: no world id is at once in worlds and in eliminated.
C1_SurvivingEliminatedDisjoint ==
  Ids(worlds) \cap Ids(eliminated) = {}

\* C2: a world that is in eliminated stays in eliminated and is never again
\* in worlds, whatever operation comes next.
C2_EliminationIrreversible ==
  [][\A e \in eliminated :
       /\ e.id \in Ids(eliminated')
       /\ e.id \notin Ids(worlds')]_vars

\* C3: public_announcement(p) with a well-formed p keeps exactly the worlds
\* that satisfy p, adds the dropped ones to eliminated, returns how many it
\* dropped; no world is lost or created and the count is |S| - |S'|.
C3_AnnouncementPartitions ==
  [][\A p \in WellFormed :
       Announces(p) =>
         LET keep == {w \in worlds : satisfies(w, p).value}
             drop == worlds \ keep
         IN  /\ worlds' = keep
             /\ eliminated \subseteq eliminated'
             /\ Ids(eliminated') = Ids(eliminated) \cup Ids(drop)
             /\ last'.raised = ""
             /\ last'.value = Cardinality(drop)
             /\ Ids(worlds') \cup Ids(eliminated') = Ids(worlds) \cup Ids(eliminated)
             /\ last'.value = Cardinality(worlds) - Cardinality(worlds')]_vars

C3_Witness ==
  /\ last.op = "public_announcement"
  /\ last.raised = ""
  /\ last.value > 0
  /\ worlds # {}
  /\ eliminated # {}

\* C4: a public_announcement never makes worlds larger nor eliminated smaller.
C4_AnnouncementMonotonic ==
  [][(\E p \in Propositions : Announces(p)) =>
       /\ Cardinality(worlds') <= Cardinality(worlds)
       /\ Cardinality(eliminated') >= Cardinality(eliminated)]_vars

C4_Witness ==
  /\ last.op = "public_announcement"
  /\ last.raised = ""
  /\ last.value = 1
  /\ Cardinality(eliminated) >= 2

\* C5: right after public_announcement(p) has returned, knows(p) is true and,
\* when a world survives, possibly(p) is true and probability(p) is 1.0.
C5_AnnouncedIsKnown ==
  (last.op = "public_announcement" /\ last.raised = "") =>
    LET k == Knows(worlds, last.arg)
        m == Possibly(worlds, last.arg)
        pr == Probability(worlds, last.arg)
    IN  /\ k.raised = "" /\ k.value
        /\ worlds # {} =>
             /\ m.raised = "" /\ m.value
             /\ pr.raised = "" /\ pr.value.num = pr.value.den

C5_Witness ==
  /\ last.op = "public_announcement"
  /\ last.raised = ""
  /\ last.value > 0
  /\ worlds # {}
  /\ Probability(worlds, last.arg).value = [num |-> 1, den |-> 1]

C7_KnowsPossiblyDual ==
  worlds # {} =>
    \A p \in {q \in Propositions : Recognised(q) \/ Recognised(Negate(q))} :
      LET k == Knows(worlds, p)
          m == Possibly(worlds, Negate(p))
      IN  /\ k.raised = ""
          /\ m.raised = ""
          /\ k.value = ~m.value

\* C8: an empty worlds set stays empty under public_announcement, and while
\* worlds is empty knows(p) is true and possibly(p) false for every p.
C8_EmptyStaysEmpty ==
  /\ [][(worlds = {} /\ \E p \in Propositions : Announces(p))
          => worlds' = {}]_vars
  /\ [](worlds = {} =>
          \A p \in Propositions :
            /\ Knows(worlds, p).raised = "" /\ Knows(worlds, p).value
            /\ Possibly(worlds, p).raised = "" /\ ~Possibly(worlds, p).value)

C8_Witness ==
  /\ worlds = {}
  /\ eliminated # {}
  /\ last.op = "possibly"
  /\ last.raised = ""
  /\ last.value = FALSE

\* C9: probability(p) of a well-formed p is count / |worlds| with
\* 0 <= count <= |worlds|, is 0.0 when worlds is empty, and is 1.0 when
\* knows(p) is true and a world survives.
C9_ProbabilityBounds ==
  \A p \in WellFormed :
    LET pr == Probability(worlds, p)
        count == Cardinality({w \in worlds : satisfies(w, p).value})
    IN  /\ pr.raised = ""
        /\ worlds = {} => pr.value = [num |-> 0, den |-> 1]
        /\ worlds # {} =>
             /\ pr.value = [num |-> count, den |-> Cardinality(worlds)]
             /\ 0 <= pr.value.num /\ pr.value.num <= pr.value.den
             /\ Knows(worlds, p).value => pr.value.num = pr.value.den

C9_Witness ==
  /\ last.op = "probability"
  /\ last.raised = ""
  /\ Cardinality(worlds) = 2
  /\ last.value = [num |-> 1, den |-> 2]

\* C10: a proposition with an unrecognised kind prefix makes
\* public_announcement, knows, possibly and probability raise, whatever the
\* state of the model.
C10_UnrecognisedKindRaises ==
  ( /\ last.op \in {"public_announcement", "knows", "possibly", "probability"}
    /\ ~Recognised(last.arg) ) => last.raised # ""

\* the step is a call of add_worlds_from_pokemon_data
Seeds == last'.op = "add_worlds_from_pokemon_data"

\* C11: a seeding call that fails on a record without moves, item or ability
\* leaves worlds exactly as it was before the call.
C11_SeedingAllOrNothing ==
  [][(Seeds /\ last'.raised # "") => worlds' = worlds]_vars

\* C12: public_announcement(p) on a model without surviving worlds returns 0,
\* raises nothing and changes neither worlds nor eliminated, for every p.
C12_AnnouncementOnEmpty ==
  [][\A p \in Propositions :
       (worlds = {} /\ Announces(p)) =>
         /\ last'.raised = ""
         /\ last'.value = 0
         /\ worlds' = worlds
         /\ eliminated' = eliminated]_vars

C12_Witness ==
  /\ worlds = {}
  /\ eliminated # {}
  /\ last.op = "public_announcement"
  /\ last.again
  /\ last.raised = ""
  /\ ~Recognised(last.arg)

\* C13: seeding keeps every world that was in worlds, with its moveset, item
\* and ability, also when a new record has the id of such a world, and leaves
\* eliminated as it was.
C13_SeedingAdditive ==
  [][Seeds => (worlds \subseteq worlds' /\ eliminated' = eliminated)]_vars

\* a failed batch of at most MaxSets records adds fewer than MaxSets worlds,
\* so the model held a world before this call
C13_Witness ==
  /\ last.op = "add_worlds_from_pokemon_data"
  /\ last.raised = "KeyError"
  /\ Cardinality(worlds) = MaxSets
  /\ \E w \in worlds : w.item = "Rocky Helmet"

\* C14: seeding a model without worlds with n well-formed records for name N
\* gives exactly the worlds N_0 .. N_(n-1); seeding any model with a batch
\* and then with the same name and batch again gives the same worlds as
\* seeding it once.
C14_SeedingIdempotent ==
  \A pokemon \in PokemonNames, sets \in GoodBatches :
    LET once == SeedFrom(worlds, pokemon, sets, 0)
        twice == SeedFrom(once.worlds, pokemon, sets, 0)
    IN  /\ once.raised = ""
        /\ twice.raised = ""
        /\ twice.worlds = once.worlds
        /\ worlds = {} =>
             /\ Cardinality(once.worlds) = Len(sets)
             /\ Ids(once.worlds) = {WorldId(pokemon, i) : i \in 0..(Len(sets) - 1)}

C14_Witness ==
  /\ last.op = "add_worlds_from_pokemon_data"
  /\ last.raised = ""
  /\ eliminated = {}
  /\ Ids(worlds) = {WorldId("Garchomp", i) : i \in 0..(MaxSets - 1)}

\* the query operations and what each answers on a set of worlds
QueryOps ==
  {"knows", "possibly", "probability", "get_known_moves", "get_possible_moves",
   "get_possible_items", "get_known_item"}

QueryAnswer(op, W, arg) ==
  CASE op = "knows" -> Knows(W, arg)
    [] op = "possibly" -> Possibly(W, arg)
    [] op = "probability" -> Probability(W, arg)
    [] op = "get_known_moves" -> GetKnownMoves(W).out
    [] op = "get_possible_moves" -> GetPossibleMoves(W)
    [] op = "get_possible_items" -> GetPossibleItems(W)
    [] op = "get_known_item" -> GetKnownItem(W)

\* C15: a query changes neither worlds (their attributes included) nor
\* eliminated, and its answer is the one worlds alone determines, whatever
\* eliminated holds.
C15_QueriesReadOnly ==
  /\ [][last'.op \in QueryOps =>
          (worlds' = worlds /\ eliminated' = eliminated)]_vars
  /\ [](last.op \in QueryOps =>
          LET a == QueryAnswer(last.op, worlds, last.arg)
          IN  last.raised = a.raised /\ last.value = a.value)

C15_Witness ==
  /\ last.op = "get_known_moves"
  /\ last.value = {"Earthquake"}
  /\ worlds # {}
  /\ eliminated # {}

\* C16: on every world, for the move kind and for the item and ability
\* kinds, the positive proposition is true exactly when the value is in the
\* moveset / is the scalar, and the negated proposition returns the opposite.
C16_BothPolarities ==
  \A w \in worlds :
    /\ \A v \in Moves :
         LET pos == satisfies(w, "has_move:" \o v)
             neg == satisfies(w, "not_has_move:" \o v)
         IN  /\ pos.raised = "" /\ neg.raised = ""
             /\ pos.value = (v \in w.moveset)
             /\ neg.value = ~pos.value
    /\ \A v \in Items :
         LET pos == satisfies(w, "has_item:" \o v)
             neg == satisfies(w, "not_has_item:" \o v)
         IN  /\ pos.raised = "" /\ neg.raised = ""
             /\ pos.value = (w.item = v)
             /\ neg.value = ~pos.value
    /\ \A v \in Abilities :
         LET pos == satisfies(w, "has_ability:" \o v)
             neg == satisfies(w, "not_has_ability:" \o v)
         IN  /\ pos.raised = "" /\ neg.raised = ""
             /\ pos.value = (w.ability = v)
             /\ neg.value = ~pos.value

\* C17: get_known_item returns v exactly when a world survives and every
\* surviving world has item v, that is when a world survives and
\* knows("has_item:v") is true; it returns None when the surviving worlds
\* disagree or none survives.
C17_KnownItem ==
  LET r == GetKnownItem(worlds).value
  IN  /\ GetKnownItem(worlds).raised = ""
      /\ \A v \in Items :
           /\ (r = v) <=> (worlds # {} /\ \A w \in worlds : w.item = v)
           /\ (r = v) <=> ( /\ worlds # {}
                            /\ Knows(worlds, "has_item:" \o v) = Returned(TRUE) )
      /\ (r = "None") <=>
           (worlds = {} \/ \E w1, w2 \in worlds : w1.item # w2.item)

C17_Witness ==
  /\ last.op = "get_known_item"
  /\ last.value = "Focus Sash"
  /\ eliminated # {}

\* C18: get_known_moves is the intersection of the movesets of the surviving
\* worlds, empty when none survives; with a survivor, m is in it exactly when
\* knows("has_move:m"); it is a subset of get_possible_moves.
C18_KnownMoves ==
  LET km == GetKnownMoves(worlds).out.value
      pm == GetPossibleMoves(worlds).value
  IN  /\ worlds = {} => km = {}
      /\ worlds # {} =>
           /\ km = {m \in pm : \A w \in worlds : m \in w.moveset}
           /\ \A m \in Moves :
                (m \in km) <=> (Knows(worlds, "has_move:" \o m) = Returned(TRUE))
      /\ km \subseteq pm

C18_Witness ==
  /\ last.op = "get_known_moves"
  /\ last.value = {"Earthquake"}
  /\ Cardinality(worlds) = 2
  /\ \E w \in worlds : "Swords Dance" \in w.moveset

\* C19: get_possible_moves is the union of the movesets of the surviving
\* worlds; m is in it exactly when possibly("has_move:m"); it never grows
\* across a public_announcement.
C19_PossibleMoves ==
  /\ [](LET pm == GetPossibleMoves(worlds).value
        IN  /\ pm = UNION {w.moveset : w \in worlds}
            /\ \A m \in Moves :
                 (m \in pm) <=> (Possibly(worlds, "has_move:" \o m) = Returned(TRUE)))
  /\ [][(\E p \in Propositions : Announces(p)) =>
          GetPossibleMoves(worlds').value \subseteq GetPossibleMoves(worlds).value]_vars

C19_Witness ==
  /\ last.op = "get_possible_moves"
  /\ last.value = {"Earthquake"}
  /\ \E e \in eliminated : "Swords Dance" \in e.moveset

\* worlds thread t has collected that are in neither worlds nor eliminated
Lost(t) ==
  {w \in calls[t].to_eliminate : w.id \notin Ids(worlds) \cup Ids(eliminated)}

\* C20: a world is in neither collection only while some call stands between
\* its "worlds -=" and its "eliminated |=" statement; when every call is made
\* under the lock of the model, every other thread is then outside
\* public_announcement and cannot see that state.
C20_TransferNotAtomic ==
  \A t \in Threads :
    Lost(t) # {} =>
      /\ \E u \in Threads :
           /\ calls[u].pc = "union"
           /\ Ids(Lost(t)) \subseteq Ids(calls[u].to_eliminate)
      /\ lock # "none" =>
           /\ lock = t
           /\ \A u \in Threads \ {t} : calls[u].pc = "idle"

\* without a lock: t1 stands between its two statements with a world in
\* neither collection while t2 is about to read worlds
C20_Witness ==
  /\ lock = "none"
  /\ calls["t1"].pc = "union"
  /\ Lost("t1") # {}
  /\ calls["t2"].pc = "loop"

\* C22: a public_announcement that raises on a proposition satisfies() does
\* not recognise, in a model with surviving worlds, leaves worlds and
\* eliminated exactly as they were before the call.
C22_FailedAnnouncementChangesNothing ==
  [][\A p \in Propositions :
       (Announces(p) /\ last'.raised # "" /\ worlds # {}) =>
         /\ worlds' = worlds
         /\ eliminated' = eliminated]_vars

\* an announcement raised in a model that has surviving and eliminated worlds
C22_Witness ==
  /\ last.op = "public_announcement"
  /\ last.raised = "ValueError"
  /\ last.arg = "not_has_ability:Rough Skin"
  /\ worlds # {}
  /\ eliminated # {}

\* the tracker handlers that take a pokemon and a move or an item
NamingOps ==
  {"observe_move", "observe_item", "observe_no_item", "query_move", "query_item"}

\* the step ends a handler of NamingOps called for the pokemon named A
Names(A) == last'.op \in NamingOps /\ NameOf[last'.arg[1]] = A

\* the step ends a reveal_pokemon call
Reveals == last'.op = "reveal_pokemon"

\* the model of pokemon B is the same before and after the step
SameModel(B) ==
  /\ B \in DOMAIN pokemon_models'
  /\ pokemon_models'[B].worlds = pokemon_models[B].worlds
  /\ pokemon_models'[B].eliminated = pokemon_models[B].eliminated

\* C21: an observation or a query that names pokemon A leaves the surviving
\* and the eliminated worlds of every other revealed pokemon unchanged, and a
\* reveal_pokemon call leaves every model that already exists unchanged.
C21_ModelsIndependent ==
  [][/\ \A raw \in RawNames :
          Names(NameOf[raw]) =>
            \A B \in DOMAIN pokemon_models \ {NameOf[raw]} : SameModel(B)
     /\ Reveals => \A B \in DOMAIN pokemon_models : SameModel(B)]_vars

\* a move observed for Garchomp has eliminated one of its worlds while
\* Dragapult is revealed too
C21_Witness ==
  /\ last.op = "observe_move"
  /\ last.value.returned
  /\ NameOf[last.arg[1]] = "Garchomp"
  /\ DOMAIN pokemon_models = {"Garchomp", "Dragapult"}
  /\ pokemon_models["Garchomp"].eliminated # {}
  /\ pokemon_models["Dragapult"].worlds # {}

\* the proposition the observe_move or observe_item call recorded in call is
\* about
ObservedProposition(call) ==
  IF call.op = "observe_move" THEN "has_move:" \o MoveOf[call.arg[2]]
                               ELSE "has_item:" \o ItemOf[call.arg[2]]

\* C23: observe_move and observe_item, called for a revealed pokemon with a
\* move or an item no surviving world has, return False and leave the models,
\* the reveal order and the observation history unchanged; so no observe_move
\* or observe_item call turns a non-empty surviving set into an empty one.
C23_ImpossibleObservationRejected ==
  [][\A raw \in RawNames :
       (/\ last'.op \in {"observe_move", "observe_item"}
        /\ last'.arg[1] = raw
        /\ NameOf[raw] \in DOMAIN pokemon_models) =>
         LET A == NameOf[raw]
             before == pokemon_models[A].worlds
         IN  /\ ~Possibly(before, ObservedProposition(last')).value =>
                  /\ ~last'.value.returned
                  /\ pokemon_models' = pokemon_models
                  /\ revealed_pokemon' = revealed_pokemon
                  /\ observations' = observations
             /\ before # {} => pokemon_models'[A].worlds # {}]_vars

\* a move no surviving Garchomp world has is refused after an earlier
\* observation has eliminated a world
C23_Witness ==
  /\ last.op = "observe_move"
  /\ ~last.value.returned
  /\ last.arg = <<"garchomp", "u-turn">>
  /\ "Garchomp" \in DOMAIN pokemon_models
  /\ pokemon_models["Garchomp"].worlds # {}
  /\ pokemon_models["Garchomp"].eliminated # {}

\* C24: in every state a tracker reaches, query_move and query_item print
\* "We KNOW they have it (100%)" only when the probability of the proposition
\* is 1.0: at least one world survives and every surviving world has it.
C24_KnowMeansCertain ==
  (last.op \in {"query_move", "query_item"} /\ last.value.message = KnowMessage) =>
    /\ pokemon_models[last.value.pokemon].worlds # {}
    /\ last.value.prob.num = last.value.prob.den

\* the elements of a list
Range(list) == {list[k] : k \in 1..Len(list)}

\* C25: reveal_pokemon for a name that is already revealed returns False and
\* leaves the model of that pokemon with its eliminations, revealed_pokemon
\* and the observation history unchanged; in every state revealed_pokemon has
\* no duplicates and lists exactly the keys of pokemon_models.
C25_RevealOnce ==
  /\ [](/\ Cardinality(Range(revealed_pokemon)) = Len(revealed_pokemon)
        /\ Range(revealed_pokemon) = DOMAIN pokemon_models)
  /\ [][\A raw \in RawNames :
          (/\ Reveals
           /\ last'.arg = <<raw>>
           /\ NameOf[raw] \in DOMAIN pokemon_models) =>
            /\ ~last'.value.returned
            /\ SameModel(NameOf[raw])
            /\ pokemon_models' = pokemon_models
            /\ revealed_pokemon' = revealed_pokemon
            /\ observations' = observations]_vars

\* Garchomp is revealed a second time after an observation has eliminated
\* one of its worlds
C25_Witness ==
  /\ last.op = "reveal_pokemon"
  /\ last.arg = <<"garchomp">>
  /\ ~last.value.returned
  /\ Len(last.value.fetches) = 1
  /\ revealed_pokemon = <<"Dragapult", "Garchomp">>
  /\ pokemon_models["Garchomp"].eliminated # {}

\* the step ends a call that fetches the catalog
Fetches == last'.op \in {"reveal_pokemon", "get_pokemon_names"}

\* a fetch that contacted the API and got no answer
Failed(fetched) == fetched.contacted /\ fetched.data = _get_fallback_data

\* C26: the catalog cache is written once. Once a fetch has succeeded the
\* cache never changes and every later fetch returns the cached data without
\* contacting the API; fallback data is never stored, so the fetch after a
\* failed one contacts the API again, within one call and across calls.
C26_CacheWriteOnce ==
  /\ []("data" \in DOMAIN _CACHE => _CACHE["data"] = SmogonData)
  /\ [][/\ "data" \in DOMAIN _CACHE => _CACHE' = _CACHE
        /\ Fetches =>
             LET fetches == last'.value.fetches
             IN  /\ "data" \in DOMAIN _CACHE =>
                      \A k \in 1..Len(fetches) :
                        /\ fetches[k].data = _CACHE["data"]
                        /\ ~fetches[k].contacted
                 /\ "data" \notin DOMAIN _CACHE => fetches[1].contacted
                 /\ \A k \in 1..Len(fetches) :
                      Failed(fetches[k]) =>
                        /\ "data" \notin DOMAIN fetches[k].cache
                        /\ k < Len(fetches) => fetches[k + 1].contacted
                 /\ Failed(fetches[Len(fetches)]) => "data" \notin DOMAIN _CACHE'
                 /\ (\E k \in 1..Len(fetches) : ~Failed(fetches[k])) =>
                      "data" \in DOMAIN _CACHE']_vars

\* Dragapult passes the name check of reveal_pokemon on the fallback catalog
\* after a failed fetch, and get_sets reads the fetched catalog, which has no
\* Dragapult: the pokemon is revealed with a model without worlds
C26_Witness ==
  /\ last.op = "reveal_pokemon"
  /\ last.arg = <<" DRAGAPULT ">>
  /\ last.value.returned
  /\ Failed(last.value.fetches[1])
  /\ last.value.fetches[2].contacted
  /\ last.value.fetches[2].data = SmogonData
  /\ last.value.fetches[1].data # last.value.fetches[2].data
  /\ _CACHE = [data |-> SmogonData]
  /\ pokemon_models["Dragapult"].worlds = {}

====
